---- MODULE Spec2Model ----
(***************************************************************************)
(* Model of server/main.py: the REST facade over the mem0 Memory engine.   *)
(*                                                                         *)
(* A request is processed in the order FastAPI imposes on the handlers as  *)
(* they are declared:                                                      *)
(*   1. the Security(security) dependency (HTTPBearer, auto_error on),     *)
(*   2. validation of the declared body / query parameters (pydantic),     *)
(*   3. the handler body: verify_api_key, the identifier check, the        *)
(*      construction of the keyword arguments, the engine call,            *)
(*   4. the return of the engine call, or the exception it raises.         *)
(* Steps 1 and 2 touch nothing shared and are one action (Receive); the    *)
(* handler body up to and including the read of MEMORY_INSTANCE is one     *)
(* action per handler; the engine call's completion is another.            *)
(***************************************************************************)
EXTENDS Integers, Sequences, FiniteSets, TLC

\* Python None, JSON null, an optional field left out.
NONE == "<None>"

\* Number of concurrent request workers (threadpool threads / event loop).
NumProcs == 2

Procs == 1..NumProcs

\* The sequential specification runs one worker.
SeqProcs == {1}

VARIABLES
    MEM0_API_KEY,     \* the secret read from the environment at import
    MEMORY_INSTANCE,  \* the global engine handle
    pc,               \* per worker: "idle", "handler", "engine", "from_config", "done"
    req,              \* per worker: the request being processed
    credentials,      \* per worker: what the Security dependency produced
    auth,             \* per worker: outcome of the authorization stage
    inst,             \* per worker: the engine object its call runs on / it is building
    calls,            \* per worker: engine operations invoked for the request
    exc,              \* per worker: message of the exception the engine raised
    resp              \* per worker: the HTTP response

vars == <<MEM0_API_KEY, MEMORY_INSTANCE, pc, req, credentials, auth, inst,
          calls, exc, resp>>

----------------------------------------------------------------------------
\* Configuration mappings: sets of <<key, value>> pairs.

DEFAULT_CONFIG ==
    { <<"version", "v1.1">>, <<"vector_store", "pgvector">>,
      <<"graph_store", "neo4j">>, <<"llm", "openai">>,
      <<"embedder", "openai">>, <<"history_db_path", "/app/history/history.db">> }

\* Configurations a client may post to /configure.
CfgA == { <<"vector_store", "qdrant">> }
CfgB == { <<"llm", "ollama">>, <<"version", "v1.0">> }

\* An engine object: the configuration it is built from, and whether its
\* construction has completed.
Instance(config, built) == [config |-> config, built |-> built]

\* Memory.from_config(config), once it has returned.
from_config(config) == Instance(config, TRUE)

\* Variant of StoredHandle: the posted configuration is laid over the one
\* the previous handle was built from, key by key.
StoredHandleMerged(old, new) ==
    Instance({kv \in old.config : \A n \in new.config : n[1] # kv[1]}
             \cup new.config, TRUE)

\* What "MEMORY_INSTANCE = Memory.from_config(config)" leaves in the global,
\* given the handle held before and the object from_config returned.
StoredHandle(old, new) == new

NoInstance == Instance({}, FALSE)

----------------------------------------------------------------------------
\* Requests.

TrustedIps == {"10.0.1.151", "172.23.0.5"}

ClientIps == TrustedIps \cup {"9.9.9.9"}

ApiKeys == {NONE, "", "abc"}

\* The Authorization header, split at blanks; <<>> is "no header".
AuthHeaders ==
    { <<>>, <<"Bearer", "abc">>, <<"Bearer", "ABC">>, <<"Bearer", " abc">>,
      <<"Basic", "abc">> }

Ops == {"configure", "create", "filter", "get_all", "get", "search",
        "update", "history", "delete", "delete_all", "reset"}

BaseRequest ==
    [op |-> "reset", client_ip |-> "9.9.9.9", authorization |-> <<>>,
     present |-> {}, messages |-> <<>>, query |-> NONE,
     user_id |-> NONE, agent_id |-> NONE, run_id |-> NONE,
     metadata |-> NONE, filters |-> NONE, memory_id |-> NONE,
     config |-> {}, data |-> NONE]

Message == [role |-> "user", content |-> "hi"]

UserIds == {NONE, "", "u"}
AgentIds == {NONE, "a"}
RunIds == {NONE, "r"}
Mappings == {NONE, "{'k': 'v'}"}

ConfigureBodies ==
    { [BaseRequest EXCEPT !.op = "configure", !.present = {}] }
    \cup { [BaseRequest EXCEPT !.op = "configure", !.present = {"config"},
                               !.config = c] : c \in {CfgA, CfgB} }

CreateBodies ==
    { [BaseRequest EXCEPT !.op = "create", !.present = {},
                          !.user_id = u] : u \in UserIds }
    \cup { [BaseRequest EXCEPT !.op = "create", !.present = {"messages"},
                               !.messages = m, !.user_id = u, !.agent_id = a,
                               !.run_id = r, !.metadata = md] :
             m \in {<<>>, <<Message>>}, u \in UserIds, a \in AgentIds,
             r \in RunIds, md \in Mappings }

FilterBodies ==
    { [BaseRequest EXCEPT !.op = "filter", !.present = {}] }
    \cup { [BaseRequest EXCEPT !.op = "filter", !.present = {"body"},
                               !.user_id = u, !.agent_id = a, !.run_id = r,
                               !.filters = f] :
             u \in UserIds, a \in AgentIds, r \in RunIds, f \in Mappings }

QueryParamBodies(op) ==
    { [BaseRequest EXCEPT !.op = op, !.user_id = u, !.agent_id = a,
                          !.run_id = r] :
        u \in UserIds, a \in AgentIds, r \in RunIds }

SearchBodies ==
    { [BaseRequest EXCEPT !.op = "search", !.present = {},
                          !.user_id = u] : u \in UserIds }
    \cup { [BaseRequest EXCEPT !.op = "search", !.present = {"query"},
                               !.query = q, !.user_id = u, !.agent_id = a,
                               !.run_id = r, !.filters = f] :
             q \in {"", "q"}, u \in UserIds, a \in AgentIds, r \in RunIds,
             f \in Mappings }

MemoryIdBodies ==
    { [BaseRequest EXCEPT !.op = op, !.memory_id = "m1"] :
        op \in {"get", "history", "delete"} }
    \cup { [BaseRequest EXCEPT !.op = "update", !.memory_id = "m1"] }
    \cup { [BaseRequest EXCEPT !.op = "update", !.memory_id = "m1",
                               !.present = {"data"}, !.data = "{'text': 't'}"] }

Bodies ==
    ConfigureBodies \cup CreateBodies \cup FilterBodies
    \cup QueryParamBodies("get_all") \cup QueryParamBodies("delete_all")
    \cup SearchBodies \cup MemoryIdBodies \cup {BaseRequest}

Requests ==
    { [b EXCEPT !.client_ip = ip, !.authorization = h] :
        b \in Bodies, ip \in ClientIps, h \in AuthHeaders }

----------------------------------------------------------------------------
\* Pure functions.

\* Python truthiness of an Optional[str].
Truthy(v) == v \notin {NONE, ""}

\* Variant of any_identifier: tests "is not None" instead of truthiness.
any_identifier_notnone(user_id, agent_id, run_id) ==
    user_id # NONE \/ agent_id # NONE \/ run_id # NONE

\* any([user_id, agent_id, run_id])
any_identifier(user_id, agent_id, run_id) ==
    Truthy(user_id) \/ Truthy(agent_id) \/ Truthy(run_id)

\* str.lower() on the authorization schemes that occur.
Lower(s) ==
    CASE s = "Bearer" -> "bearer"
      [] s = "Basic" -> "basic"
      [] OTHER -> s

Returned(value) == [status |-> 0, detail |-> "", value |-> value]

Raised(status, detail) == [status |-> status, detail |-> detail, value |-> <<>>]

\* security = HTTPBearer(): auto_error is left at its default, so a missing
\* or non-bearer Authorization header raises instead of yielding None.
\* A result value of <<>> stands for None.
HTTPBearer(authorization) ==
    LET scheme == IF Len(authorization) >= 1 THEN authorization[1] ELSE ""
        param == IF Len(authorization) >= 2 THEN authorization[2] ELSE ""
    IN IF authorization = <<>> \/ scheme = "" \/ param = ""
       THEN Raised(403, "Not authenticated")
       ELSE IF Lower(scheme) # "bearer"
       THEN Raised(403, "Invalid authentication credentials")
       ELSE Returned(<<scheme, param>>)

\* Variant of verify_api_key: any presented credential passes.
verify_api_key_anycred(client_ip, creds, key) ==
    IF client_ip \in TrustedIps
    THEN Returned(<<>>)
    ELSE IF ~Truthy(key)
    THEN Raised(500, "API key not configured")
    ELSE IF creds = <<>>
    THEN Raised(403, "Invalid API key")
    ELSE Returned(creds)

\* verify_api_key(request, credentials) with the process-wide secret.
verify_api_key(client_ip, creds, key) ==
    IF client_ip \in TrustedIps
    THEN Returned(<<>>)
    ELSE IF ~Truthy(key)
    THEN Raised(500, "API key not configured")
    ELSE IF creds = <<>> \/ creds[2] # key
    THEN Raised(403, "Invalid API key")
    ELSE Returned(creds)

\* Variant of RequiredFields: SearchRequest.query declared optional.
RequiredFieldsOptionalQuery(op) ==
    CASE op = "configure" -> {"config"}
      [] op = "create" -> {"messages"}
      [] op = "update" -> {"data"}
      [] OTHER -> {}

\* The fields each handler's signature requires of the request: a required
\* field that is absent makes FastAPI answer 422 before the handler runs.
RequiredFields(op) ==
    CASE op = "configure" -> {"config"}
      [] op = "create" -> {"messages"}
      [] op = "search" -> {"query"}
      [] op = "update" -> {"data"}
      [] OTHER -> {}

Validate(r) == RequiredFields(r.op) \subseteq r.present

\* {k: v for k, v in d.items() if v is not None and k != excluded}: the
\* keyword arguments, as a set of <<name, value>> pairs.
StripNone(d, excluded) ==
    { <<k, d[k]>> : k \in {x \in DOMAIN d \ excluded : d[x] # NONE} }

\* safe_dump(model): the model's declared fields as a dict.
safe_dump(r, fields) == [k \in fields |-> r[k]]

MemoryCreateFields == {"messages", "user_id", "agent_id", "run_id", "metadata"}

MemoryFilterFields == {"user_id", "agent_id", "run_id", "filters"}

SearchRequestFields == {"query", "user_id", "run_id", "agent_id", "filters"}

----------------------------------------------------------------------------
\* State.

NoResponse == [status |-> 0, detail |-> ""]

\* The authorization stage's outcome: who decided ("none" while undecided,
\* "bearer" for the Security dependency, "guard" for verify_api_key) and
\* the status raised (0: allowed).
Undecided == [by |-> "none", status |-> 0]

Decided(by, status) == [by |-> by, status |-> status]

EngineErrors == {"engine failure"}

Init ==
    /\ MEM0_API_KEY \in ApiKeys
    /\ MEMORY_INSTANCE = from_config(DEFAULT_CONFIG)
    /\ pc = [p \in Procs |-> "idle"]
    /\ req = [p \in Procs |-> BaseRequest]
    /\ credentials = [p \in Procs |-> <<>>]
    /\ auth = [p \in Procs |-> Undecided]
    /\ inst = [p \in Procs |-> NoInstance]
    /\ calls = [p \in Procs |-> <<>>]
    /\ exc = [p \in Procs |-> NONE]
    /\ resp = [p \in Procs |-> NoResponse]

\* The request is answered with an error raised before or by the handler.
HTTPException(p, by, status, detail) ==
    /\ pc' = [pc EXCEPT ![p] = "done"]
    /\ resp' = [resp EXCEPT ![p] = [status |-> status, detail |-> detail]]
    /\ auth' = [auth EXCEPT ![p] = by]
    /\ UNCHANGED <<MEM0_API_KEY, MEMORY_INSTANCE, req, credentials, inst,
                   calls, exc>>

\* MEMORY_INSTANCE.<op>(messages, **kwargs) is entered: the global is read
\* and the call runs on the object it held.
Invoke(p, op, messages, kwargs) ==
    /\ pc' = [pc EXCEPT ![p] = "engine"]
    /\ auth' = [auth EXCEPT ![p] = Decided("guard", 0)]
    /\ inst' = [inst EXCEPT ![p] = MEMORY_INSTANCE]
    /\ calls' = [calls EXCEPT ![p] =
                    Append(@, [op |-> op, inst |-> MEMORY_INSTANCE,
                               messages |-> messages, kwargs |-> kwargs])]
    /\ UNCHANGED <<MEM0_API_KEY, MEMORY_INSTANCE, req, credentials, exc,
                   resp>>

\* A request arrives at worker p: FastAPI solves the Security dependency,
\* validates the declared parameters and, if both pass, calls the handler.
Accept(p, r) ==
    /\ pc[p] = "idle"
    /\ req' = [req EXCEPT ![p] = r]
    /\ LET b == HTTPBearer(r.authorization)
       IN IF b.status # 0
          THEN /\ pc' = [pc EXCEPT ![p] = "done"]
               /\ resp' = [resp EXCEPT ![p] =
                              [status |-> b.status, detail |-> b.detail]]
               /\ auth' = [auth EXCEPT ![p] = Decided("bearer", b.status)]
               /\ credentials' = [credentials EXCEPT ![p] = <<>>]
          ELSE IF ~Validate(r)
          THEN /\ pc' = [pc EXCEPT ![p] = "done"]
               /\ resp' = [resp EXCEPT ![p] =
                              [status |-> 422, detail |-> "Field required"]]
               /\ auth' = [auth EXCEPT ![p] = Undecided]
               /\ credentials' = [credentials EXCEPT ![p] = b.value]
          ELSE /\ pc' = [pc EXCEPT ![p] = "handler"]
               /\ resp' = [resp EXCEPT ![p] = NoResponse]
               /\ auth' = [auth EXCEPT ![p] = Undecided]
               /\ credentials' = [credentials EXCEPT ![p] = b.value]
    /\ UNCHANGED <<MEM0_API_KEY, MEMORY_INSTANCE, inst, calls, exc>>

Receive(p) == \E r \in Requests : Accept(p, r)

\* The guard as each handler calls it, on worker p's request.
Guard(p) == verify_api_key(req[p].client_ip, credentials[p], MEM0_API_KEY)

IdentifierRequired ==
    "At least one identifier (user_id, agent_id, run_id) is required."

----------------------------------------------------------------------------
\* Handlers.

\* Variant of set_config: the object is put in the global when its
\* construction starts, not when it has returned.
set_config_early(p) ==
    /\ pc[p] = "handler" /\ req[p].op = "configure"
    /\ LET g == Guard(p)
       IN IF g.status # 0
          THEN HTTPException(p, Decided("guard", g.status), g.status, g.detail)
          ELSE /\ pc' = [pc EXCEPT ![p] = "from_config"]
               /\ auth' = [auth EXCEPT ![p] = Decided("guard", 0)]
               /\ inst' = [inst EXCEPT ![p] = Instance(req[p].config, FALSE)]
               /\ MEMORY_INSTANCE' = Instance(req[p].config, FALSE)
               /\ calls' = [calls EXCEPT ![p] =
                               Append(@, [op |-> "from_config",
                                          inst |-> NoInstance,
                                          messages |-> <<>>,
                                          kwargs |-> req[p].config])]
               /\ UNCHANGED <<MEM0_API_KEY, req, credentials, exc, resp>>

set_config(p) ==
    /\ pc[p] = "handler" /\ req[p].op = "configure"
    /\ LET g == Guard(p)
       IN IF g.status # 0
          THEN HTTPException(p, Decided("guard", g.status), g.status, g.detail)
          ELSE /\ pc' = [pc EXCEPT ![p] = "from_config"]
               /\ auth' = [auth EXCEPT ![p] = Decided("guard", 0)]
               /\ inst' = [inst EXCEPT ![p] = Instance(req[p].config, FALSE)]
               /\ calls' = [calls EXCEPT ![p] =
                               Append(@, [op |-> "from_config",
                                          inst |-> NoInstance,
                                          messages |-> <<>>,
                                          kwargs |-> req[p].config])]
               /\ UNCHANGED <<MEM0_API_KEY, MEMORY_INSTANCE, req, credentials,
                              exc, resp>>

add_memory(p) ==
    /\ pc[p] = "handler" /\ req[p].op = "create"
    /\ LET g == Guard(p)
           memory_create == safe_dump(req[p], MemoryCreateFields)
       IN IF g.status # 0
          THEN HTTPException(p, Decided("guard", g.status), g.status, g.detail)
          ELSE IF ~any_identifier(memory_create.user_id, memory_create.agent_id,
                                  memory_create.run_id)
          THEN HTTPException(p, Decided("guard", 0), 400, IdentifierRequired)
          ELSE Invoke(p, "add", memory_create.messages,
                      StripNone(memory_create, {"messages"}))

\* The dict literal of the three identifiers that the filter, get-all and
\* delete-all handlers build before stripping None values.
Identifiers(user_id, run_id, agent_id) ==
    [user_id |-> user_id, run_id |-> run_id, agent_id |-> agent_id]

filter_memories_post(p) ==
    /\ pc[p] = "handler" /\ req[p].op = "filter"
    /\ LET g == Guard(p)
           filter_req == IF "body" \in req[p].present
                         THEN safe_dump(req[p], MemoryFilterFields)
                         ELSE [k \in MemoryFilterFields |-> NONE]
           user_id == filter_req.user_id
           agent_id == filter_req.agent_id
           run_id == filter_req.run_id
       IN IF g.status # 0
          THEN HTTPException(p, Decided("guard", g.status), g.status, g.detail)
          ELSE IF ~any_identifier(user_id, agent_id, run_id)
          THEN HTTPException(p, Decided("guard", 0), 400,
                             "At least one identifier is required.")
          ELSE Invoke(p, "get_all", <<>>,
                      StripNone(Identifiers(user_id, run_id, agent_id), {}))

get_all_memories(p) ==
    /\ pc[p] = "handler" /\ req[p].op = "get_all"
    /\ LET g == Guard(p)
           r == req[p]
       IN IF g.status # 0
          THEN HTTPException(p, Decided("guard", g.status), g.status, g.detail)
          ELSE IF ~any_identifier(r.user_id, r.run_id, r.agent_id)
          THEN HTTPException(p, Decided("guard", 0), 400,
                             "At least one identifier is required.")
          ELSE Invoke(p, "get_all", <<>>,
                      StripNone(Identifiers(r.user_id, r.run_id, r.agent_id), {}))

get_memory(p) ==
    /\ pc[p] = "handler" /\ req[p].op = "get"
    /\ LET g == Guard(p)
       IN IF g.status # 0
          THEN HTTPException(p, Decided("guard", g.status), g.status, g.detail)
          ELSE Invoke(p, "get", <<>>, {<<"memory_id", req[p].memory_id>>})

search_memories(p) ==
    /\ pc[p] = "handler" /\ req[p].op = "search"
    /\ LET g == Guard(p)
           search_req == safe_dump(req[p], SearchRequestFields)
       IN IF g.status # 0
          THEN HTTPException(p, Decided("guard", g.status), g.status, g.detail)
          ELSE Invoke(p, "search", <<>>,
                      {<<"query", search_req.query>>}
                      \cup StripNone(search_req, {"query"}))

update_memory(p) ==
    /\ pc[p] = "handler" /\ req[p].op = "update"
    /\ LET g == Guard(p)
       IN IF g.status # 0
          THEN HTTPException(p, Decided("guard", g.status), g.status, g.detail)
          ELSE Invoke(p, "update", <<>>,
                      {<<"memory_id", req[p].memory_id>>,
                       <<"data", req[p].data>>})

memory_history(p) ==
    /\ pc[p] = "handler" /\ req[p].op = "history"
    /\ LET g == Guard(p)
       IN IF g.status # 0
          THEN HTTPException(p, Decided("guard", g.status), g.status, g.detail)
          ELSE Invoke(p, "history", <<>>, {<<"memory_id", req[p].memory_id>>})

delete_memory(p) ==
    /\ pc[p] = "handler" /\ req[p].op = "delete"
    /\ LET g == Guard(p)
       IN IF g.status # 0
          THEN HTTPException(p, Decided("guard", g.status), g.status, g.detail)
          ELSE Invoke(p, "delete", <<>>, {<<"memory_id", req[p].memory_id>>})

delete_all_memories(p) ==
    /\ pc[p] = "handler" /\ req[p].op = "delete_all"
    /\ LET g == Guard(p)
           r == req[p]
       IN IF g.status # 0
          THEN HTTPException(p, Decided("guard", g.status), g.status, g.detail)
          ELSE IF ~any_identifier(r.user_id, r.run_id, r.agent_id)
          THEN HTTPException(p, Decided("guard", 0), 400,
                             "At least one identifier is required.")
          ELSE Invoke(p, "delete_all", <<>>,
                      StripNone(Identifiers(r.user_id, r.run_id, r.agent_id), {}))

reset_memory(p) ==
    /\ pc[p] = "handler" /\ req[p].op = "reset"
    /\ LET g == Guard(p)
       IN IF g.status # 0
          THEN HTTPException(p, Decided("guard", g.status), g.status, g.detail)
          ELSE Invoke(p, "reset", <<>>, {})

----------------------------------------------------------------------------
\* Completion of the engine calls.

\* What each handler returns once its engine call has returned.
SuccessBody(op) ==
    CASE op = "configure" -> "Configuration set successfully"
      [] op = "delete" -> "Memory deleted successfully"
      [] op = "delete_all" -> "All relevant memories deleted"
      [] op = "reset" -> "All memories reset"
      [] OTHER -> "<engine result>"

\* The engine operation returns; the handler answers 200.
engine_return(p) ==
    /\ pc[p] = "engine"
    /\ pc' = [pc EXCEPT ![p] = "done"]
    /\ resp' = [resp EXCEPT ![p] =
                   [status |-> 200, detail |-> SuccessBody(req[p].op)]]
    /\ UNCHANGED <<MEM0_API_KEY, MEMORY_INSTANCE, req, credentials, auth,
                   inst, calls, exc>>

\* The engine operation raises; the handler's "except Exception as e"
\* answers 500 with str(e).
engine_raise(p) ==
    /\ pc[p] = "engine"
    /\ \E e \in EngineErrors :
         /\ exc' = [exc EXCEPT ![p] = e]
         /\ resp' = [resp EXCEPT ![p] = [status |-> 500, detail |-> e]]
    /\ pc' = [pc EXCEPT ![p] = "done"]
    /\ UNCHANGED <<MEM0_API_KEY, MEMORY_INSTANCE, req, credentials, auth,
                   inst, calls>>

\* Memory.from_config returns in set_config: the global is assigned the
\* object it built and the handler answers 200.
from_config_return(p) ==
    /\ pc[p] = "from_config"
    /\ LET new == StoredHandle(MEMORY_INSTANCE, from_config(req[p].config))
       IN /\ MEMORY_INSTANCE' = new
          /\ inst' = [inst EXCEPT ![p] = new]
    /\ pc' = [pc EXCEPT ![p] = "done"]
    /\ resp' = [resp EXCEPT ![p] =
                   [status |-> 200, detail |-> SuccessBody("configure")]]
    /\ UNCHANGED <<MEM0_API_KEY, req, credentials, auth, calls, exc>>

\* Memory.from_config raises in set_config, which has no try/except: the
\* exception leaves the handler and the server answers its generic 500.
from_config_raise(p) ==
    /\ pc[p] = "from_config"
    /\ \E e \in EngineErrors : exc' = [exc EXCEPT ![p] = e]
    /\ inst' = [inst EXCEPT ![p] = NoInstance]
    /\ pc' = [pc EXCEPT ![p] = "done"]
    /\ resp' = [resp EXCEPT ![p] =
                   [status |-> 500, detail |-> "Internal Server Error"]]
    /\ UNCHANGED <<MEM0_API_KEY, MEMORY_INSTANCE, req, credentials, auth,
                   calls>>

\* The response is sent; the worker is free for the next request and the
\* request's locals are gone.
Respond(p) ==
    /\ pc[p] = "done"
    /\ pc' = [pc EXCEPT ![p] = "idle"]
    /\ req' = [req EXCEPT ![p] = BaseRequest]
    /\ credentials' = [credentials EXCEPT ![p] = <<>>]
    /\ auth' = [auth EXCEPT ![p] = Undecided]
    /\ inst' = [inst EXCEPT ![p] = NoInstance]
    /\ calls' = [calls EXCEPT ![p] = <<>>]
    /\ exc' = [exc EXCEPT ![p] = NONE]
    /\ resp' = [resp EXCEPT ![p] = NoResponse]
    /\ UNCHANGED <<MEM0_API_KEY, MEMORY_INSTANCE>>

----------------------------------------------------------------------------
\* Specifications.

Step(p) ==
    \/ set_config(p)
    \/ add_memory(p)
    \/ filter_memories_post(p)
    \/ get_all_memories(p)
    \/ get_memory(p)
    \/ search_memories(p)
    \/ update_memory(p)
    \/ memory_history(p)
    \/ delete_memory(p)
    \/ delete_all_memories(p)
    \/ reset_memory(p)
    \/ engine_return(p)
    \/ engine_raise(p)
    \/ from_config_return(p)
    \/ from_config_raise(p)
    \/ Respond(p)

\* One worker, every request shape.
Next == \E p \in SeqProcs : Receive(p) \/ Step(p)

Spec == Init /\ [][Next]_vars

\* Requests of the concurrent specification: one well-formed request per
\* operation, carrying the configured secret.
ConcBodies ==
    { b \in Bodies :
        /\ Validate(b)
        /\ b.metadata = NONE /\ b.filters = NONE /\ b.agent_id = NONE
        /\ b.run_id = NONE
        /\ b.user_id = (IF b.op \in {"create", "filter", "get_all", "search",
                                      "delete_all"} THEN "u" ELSE NONE)
        /\ b.op = "configure" => b.config = CfgA
        /\ b.op = "create" => b.messages # <<>>
        /\ b.op = "search" => b.query = "q"
        /\ b.op = "filter" => "body" \in b.present }

ConcRequests ==
    { [b EXCEPT !.client_ip = "9.9.9.9", !.authorization = <<"Bearer", "abc">>] :
        b \in ConcBodies }

ConcReceive(p) == \E r \in ConcRequests : Accept(p, r)

ConcInit == Init /\ MEM0_API_KEY = "abc"

\* NumProcs workers interleaving at the reads and writes of the global.
ConcNext == \E p \in Procs : ConcReceive(p) \/ Step(p)

ConcSpec == ConcInit /\ [][ConcNext]_vars

----------------------------------------------------------------------------
\* Properties.

Active == {p \in Procs : pc[p] # "idle"}

Untrusted(p) == req[p].client_ip \notin TrustedIps

\* The bearer token the request presents, NONE when it presents none.
Presented(r) ==
    IF Len(r.authorization) = 2 /\ Lower(r.authorization[1]) = "bearer"
    THEN r.authorization[2]
    ELSE NONE

Allowed == Decided("guard", 0)

\* C1: a request from a trusted origin is never rejected with 403 or 500 by
\* the bearer-credential extraction or by the access guard, whatever
\* credential it presents, including none.
C1_TrustedOriginNeverRejected ==
    \A p \in Active :
        req[p].client_ip \in TrustedIps => auth[p].status \notin {403, 500}

\* C2: from a non-trusted origin with a non-empty secret configured, the
\* authorization stage allows the request iff the presented bearer
\* credential equals the secret exactly, rejects every other one with 403,
\* and decides every request that reaches it (every well-formed request).
C2_SecretDecidesAuthorization ==
    \A p \in Active :
        (Untrusted(p) /\ Truthy(MEM0_API_KEY)) =>
            /\ auth[p].by # "none" =>
                 /\ auth[p] = Allowed <=> Presented(req[p]) = MEM0_API_KEY
                 /\ auth[p] # Allowed =>
                      /\ auth[p].status = 403
                      /\ resp[p].status = 403
                      /\ pc[p] = "done"
            /\ (pc[p] = "done" /\ Validate(req[p])) => auth[p].by # "none"

\* C2 witness: a request from a non-trusted origin presenting exactly the
\* configured secret has been allowed by the guard and answered.
C2_Witness ==
    \E p \in Active :
        /\ Untrusted(p) /\ MEM0_API_KEY = "abc" /\ pc[p] = "done"
        /\ Presented(req[p]) = "abc"
        /\ auth[p] = Allowed
        /\ resp[p].status = 200

\* C3: from a non-trusted origin with no secret configured, authorization
\* fails with 500 and never with 403, for every credential, absent included.
C3_UnconfiguredSecretIs500 ==
    \A p \in Active :
        (Untrusted(p) /\ ~Truthy(MEM0_API_KEY) /\ auth[p].by # "none") =>
            auth[p].status = 500

IdentifierOps == {"create", "filter", "get_all", "delete_all"}

\* C4: an authorized create, POST-filter, get-all or delete-all request
\* whose user_id, agent_id and run_id are all empty or absent is answered
\* 400 and no engine operation is invoked for it.
C4_MissingIdentifierIs400 ==
    \A p \in Active :
        ( /\ req[p].op \in IdentifierOps
          /\ auth[p] = Allowed
          /\ ~Truthy(req[p].user_id) /\ ~Truthy(req[p].agent_id)
          /\ ~Truthy(req[p].run_id) ) =>
            /\ calls[p] = <<>>
            /\ pc[p] = "done"
            /\ resp[p].status = 400

\* C4 witness: an authorized POST-filter request with no filter object at
\* all has been answered 400.
C4_Witness ==
    \E p \in Active :
        /\ req[p].op = "filter" /\ "body" \notin req[p].present
        /\ auth[p] = Allowed /\ pc[p] = "done" /\ resp[p].status = 400
        /\ calls[p] = <<>>

\* The guard's decision on a request, taken on its origin and credential.
AccessGuard(r) ==
    verify_api_key(r.client_ip, HTTPBearer(r.authorization).value, MEM0_API_KEY)

\* C5: a request the access guard rejects invokes no engine operation and
\* is never answered with a validation error in place of the rejection.
C5_GuardBeforeValidation ==
    \A p \in Active :
        (pc[p] = "done" /\ AccessGuard(req[p]).status # 0) =>
            /\ calls[p] = <<>>
            /\ resp[p].status \notin {400, 422}

SuppliedConfigs == {CfgA, CfgB}

\* C6: under every interleaving, the global handle and the object of every
\* engine operation are fully constructed instances built from one whole
\* configuration (the default or a posted one), never a partial or mixed one.
C6_AtomicReconfiguration ==
    /\ MEMORY_INSTANCE.built
    /\ MEMORY_INSTANCE.config \in {DEFAULT_CONFIG} \cup SuppliedConfigs
    /\ \A p \in Active : \A i \in 1..Len(calls[p]) :
          calls[p][i].op # "from_config" =>
              /\ calls[p][i].inst.built
              /\ calls[p][i].inst.config \in {DEFAULT_CONFIG} \cup SuppliedConfigs

\* C6 witness: a worker's engine operation, started on the old instance, is
\* still running after another worker's configure has replaced the handle.
C6_Witness ==
    \E p \in Active : \E q \in Active \ {p} :
        /\ pc[p] = "engine"
        /\ inst[p] = Instance(DEFAULT_CONFIG, TRUE)
        /\ req[q].op = "configure" /\ pc[q] = "done" /\ resp[q].status = 200
        /\ MEMORY_INSTANCE = Instance(CfgA, TRUE)

\* C7: when the engine call of an authorized, valid request raises, on any
\* entry point including reconfigure, the request is answered 500 with the
\* engine's message as detail and the operation was invoked once.
C7_EngineErrorIs500WithMessage ==
    \A p \in Active :
        (pc[p] = "done" /\ exc[p] # NONE) =>
            /\ resp[p].status = 500
            /\ resp[p].detail = exc[p]
            /\ Len(calls[p]) = 1

EmptyRequiredField(r) ==
    \/ r.op = "search" /\ "query" \in r.present /\ r.query = ""
    \/ r.op = "create" /\ "messages" \in r.present /\ r.messages = <<>>

MissingRequiredField(r) ==
    \/ r.op = "search" /\ "query" \notin r.present
    \/ r.op = "create" /\ "messages" \notin r.present

ClientError(status) == status >= 400 /\ status <= 499

OptionalFields == {"user_id", "agent_id", "run_id", "metadata", "filters"}

NonNullFields(r) ==
    { <<k, r[k]>> : k \in {x \in OptionalFields : r[x] # NONE} }
    \cup (IF r.op = "search" THEN {<<"query", r.query>>} ELSE {})

ForwardingOps == {"create", "filter", "get_all", "search", "delete_all"}

\* C9: the engine call of a create, POST-filter, get-all, search or
\* delete-all request receives exactly the request's non-null fields:
\* none of them is dropped and no null field is forwarded.
C9_NonNullFieldsForwarded ==
    \A p \in Active :
        req[p].op \in ForwardingOps =>
            \A i \in 1..Len(calls[p]) :
                /\ calls[p][i].kwargs = NonNullFields(req[p])
                /\ calls[p][i].messages = req[p].messages

\* C10: the handle changes only in the step in which an authorized
\* reconfigure's construction returns, and that step leaves in it the
\* instance built from the posted configuration alone.
C10_HandleWrittenOnlyByReconfigure ==
    [][ /\ \A p \in Procs :
             (pc[p] = "from_config" /\ pc'[p] = "done" /\ resp'[p].status = 200)
                 => MEMORY_INSTANCE' = Instance(req[p].config, TRUE)
        /\ MEMORY_INSTANCE' # MEMORY_INSTANCE =>
             \E p \in Procs :
                 /\ req[p].op = "configure" /\ auth[p] = Allowed
                 /\ pc[p] = "from_config" /\ pc'[p] = "done"
                 /\ exc'[p] = NONE /\ resp'[p].status = 200 ]_vars

\* C10 witness: a reconfigure has succeeded and the handle is the instance
\* built from the configuration it posted, which shares no entry with the
\* default configuration.
C10_Witness ==
    \E p \in Active :
        /\ req[p].op = "configure" /\ pc[p] = "done" /\ resp[p].status = 200
        /\ req[p].config = CfgB
        /\ MEMORY_INSTANCE = Instance(CfgB, TRUE)
        /\ MEMORY_INSTANCE.config \cap DEFAULT_CONFIG = {}

====
